---- MODULE Spec2Model ----
(***************************************************************************)
(* A model of src/src/lib/ChaincodeBase.js: the dispatcher (Invoke), the   *)
(* parameter coercer (parseParameters), the response encoder               *)
(* (prepareResponsePayload) and the migration runner (runMigrations) of a  *)
(* chaincode handler instance.                                             *)
(*                                                                         *)
(* JavaScript runs one synchronous segment at a time; segments of          *)
(* different calls interleave only at an await.  Every action below is one *)
(* synchronous segment of the source.                                      *)
(***************************************************************************)
EXTENDS Integers, Sequences, FiniteSets, TLC

(***************************************************************************)
(* Bounds of the model.                                                    *)
(***************************************************************************)
\* number of calls the hosting environment issues to the one handler instance
NumCalls == 2
\* longest raw argument sequence handed to parseParameters directly
MaxArgs == 3

(***************************************************************************)
(* JavaScript values.  A string is the sequence of its characters, each a  *)
(* one-character TLA+ string; a Buffer is the sequence of its bytes.       *)
(***************************************************************************)
Undefined == [t |-> "undefined"]
Null == [t |-> "null"]
Bool(b) == [t |-> "bool", b |-> b]
Num(k) == [t |-> "num", n |-> k]
Str(cs) == [t |-> "str", s |-> cs]
Arr(items) == [t |-> "arr", items |-> items]
Obj(keys, vals) == [t |-> "obj", keys |-> keys, vals |-> vals]
Buf(bytes) == [t |-> "buffer", bytes |-> bytes]
\* a Date holding the given epoch time
DateVal(ms) == [t |-> "date", ms |-> ms]

Digits == <<"0", "1", "2", "3", "4", "5", "6", "7", "8", "9">>

IsDigit(ch) == \E i \in 1..10 : Digits[i] = ch

DigitVal(ch) == (CHOOSE i \in 1..10 : Digits[i] = ch) - 1

IsWs(ch) == ch = " "

(***************************************************************************)
(* JSON.parse, for the grammar: whitespace, integers (no fraction, no      *)
(* exponent), strings without escapes, true, false, null, arrays, objects. *)
(* A parse step returns [ok, val, next]: next is the position after the    *)
(* value.                                                                  *)
(***************************************************************************)
ParseFail == [ok |-> FALSE, val |-> Undefined, next |-> 0]

ParseOk(v, next) == [ok |-> TRUE, val |-> v, next |-> next]

RECURSIVE SkipWs(_, _)
SkipWs(cs, i) ==
    IF i <= Len(cs) /\ IsWs(cs[i]) THEN SkipWs(cs, i + 1) ELSE i

\* the word w stands at position i of cs
HasWord(cs, i, w) ==
    /\ i + Len(w) - 1 <= Len(cs)
    /\ \A k \in 1..Len(w) : cs[i + k - 1] = w[k]

RECURSIVE ParseDigits(_, _, _)
\* the digits from position i on, accumulated into acc
ParseDigits(cs, i, acc) ==
    IF i <= Len(cs) /\ IsDigit(cs[i])
    THEN ParseDigits(cs, i + 1, 10 * acc + DigitVal(cs[i]))
    ELSE [n |-> acc, next |-> i]

\* the number whose digits d were read, negated after a "-"
NumberOf(neg, d) == ParseOk(Num(IF neg THEN 0 - d.n ELSE d.n), d.next)

\* the digits of an integer at position j: "0" | [1-9][0-9]*
ParseInteger(cs, neg, j) ==
    IF ~(j <= Len(cs) /\ IsDigit(cs[j])) THEN ParseFail
    ELSE IF cs[j] = "0" THEN ParseOk(Num(0), j + 1)
    ELSE NumberOf(neg, ParseDigits(cs, j, 0))

\* an integer at position i, with its sign
ParseNumber(cs, i) ==
    IF cs[i] = "-" THEN ParseInteger(cs, TRUE, i + 1) ELSE ParseInteger(cs, FALSE, i)

RECURSIVE StringEnd(_, _)
\* the position of the quote closing the string opened before i; 0 if none
StringEnd(cs, i) ==
    IF i > Len(cs) THEN 0
    ELSE IF cs[i] = "\"" THEN i
    ELSE IF cs[i] = "\\" THEN 0
    ELSE StringEnd(cs, i + 1)

\* the string between the opening quote at i and the closing quote at e
StringBetween(cs, i, e) ==
    IF e = 0 THEN ParseFail ELSE ParseOk(Str(SubSeq(cs, i + 1, e - 1)), e + 1)

\* a string literal whose opening quote is at position i
ParseString(cs, i) == StringBetween(cs, i, StringEnd(cs, i + 1))

\* the index of key k in keys, 0 if absent
KeyIndex(keys, k) ==
    IF \E i \in 1..Len(keys) : keys[i] = k
    THEN CHOOSE i \in 1..Len(keys) : keys[i] = k
    ELSE 0

\* the object o with the value at index i replaced, or the member appended
ObjPutAt(o, i, k, v) ==
    IF i = 0 THEN Obj(Append(o.keys, k), Append(o.vals, v))
    ELSE Obj(o.keys, [o.vals EXCEPT ![i] = v])

\* the object with property k set to v (a repeated key keeps its first place)
ObjPut(o, k, v) == ObjPutAt(o, KeyIndex(o.keys, k), k, v)

RECURSIVE ParseValue(_, _)
RECURSIVE ParseElements(_, _, _)
RECURSIVE ParseMembers(_, _, _)

\* after an element: "]" ends the array items, "," goes on
ElementsSep(cs, j, items) ==
    IF j > Len(cs) THEN ParseFail
    ELSE IF cs[j] = "]" THEN ParseOk(Arr(items), j + 1)
    ELSE IF cs[j] = "," THEN ParseElements(cs, j + 1, items)
    ELSE ParseFail

\* the element r was read after the elements acc
ElementsAfter(cs, r, acc) ==
    IF ~r.ok THEN ParseFail
    ELSE ElementsSep(cs, SkipWs(cs, r.next), Append(acc, r.val))

\* the elements of an array from position i on, after acc, up to the "]"
ParseElements(cs, i, acc) == ElementsAfter(cs, ParseValue(cs, i), acc)

\* after a member: "}" ends the object o, "," goes on
MembersSep(cs, j, o) ==
    IF j > Len(cs) THEN ParseFail
    ELSE IF cs[j] = "}" THEN ParseOk(o, j + 1)
    ELSE IF cs[j] = "," THEN ParseMembers(cs, j + 1, o)
    ELSE ParseFail

\* the value r of the member called name was read after the members acc
MembersAfter(cs, name, r, acc) ==
    IF ~r.ok THEN ParseFail
    ELSE MembersSep(cs, SkipWs(cs, r.next), ObjPut(acc, name, r.val))

\* the ":" at position c and the value after it
MembersValue(cs, name, c, acc) ==
    IF c > Len(cs) THEN ParseFail
    ELSE IF cs[c] # ":" THEN ParseFail
    ELSE MembersAfter(cs, name, ParseValue(cs, c + 1), acc)

\* the key was read
MembersColon(cs, key, acc) ==
    IF ~key.ok THEN ParseFail
    ELSE MembersValue(cs, key.val.s, SkipWs(cs, key.next), acc)

\* a member's key, a string literal, at position k
MembersKey(cs, k, acc) ==
    IF k <= Len(cs) /\ cs[k] = "\"" THEN MembersColon(cs, ParseString(cs, k), acc)
    ELSE ParseFail

\* the members of an object from position i on, after acc, up to the "}"
ParseMembers(cs, i, acc) == MembersKey(cs, SkipWs(cs, i), acc)

\* an array whose "[" is at position i and whose next token is at j
ArrayAt(cs, i, j) ==
    IF j <= Len(cs) /\ cs[j] = "]" THEN ParseOk(Arr(<<>>), j + 1)
    ELSE ParseElements(cs, i + 1, <<>>)

\* an object whose "{" is at position i and whose next token is at j
ObjectAt(cs, i, j) ==
    IF j <= Len(cs) /\ cs[j] = "}" THEN ParseOk(Obj(<<>>, <<>>), j + 1)
    ELSE ParseMembers(cs, i + 1, Obj(<<>>, <<>>))

\* the value whose first character is at position i
ValueAt(cs, i) ==
    IF i > Len(cs) THEN ParseFail
    ELSE IF cs[i] = "\"" THEN ParseString(cs, i)
    ELSE IF cs[i] = "-" \/ IsDigit(cs[i]) THEN ParseNumber(cs, i)
    ELSE IF HasWord(cs, i, <<"t", "r", "u", "e">>) THEN ParseOk(Bool(TRUE), i + 4)
    ELSE IF HasWord(cs, i, <<"f", "a", "l", "s", "e">>) THEN ParseOk(Bool(FALSE), i + 5)
    ELSE IF HasWord(cs, i, <<"n", "u", "l", "l">>) THEN ParseOk(Null, i + 4)
    ELSE IF cs[i] = "[" THEN ArrayAt(cs, i, SkipWs(cs, i + 1))
    ELSE IF cs[i] = "{" THEN ObjectAt(cs, i, SkipWs(cs, i + 1))
    ELSE ParseFail

ParseValue(cs, i) == ValueAt(cs, SkipWs(cs, i))

\* the whole text must be one value, whitespace around it
WholeText(cs, r) ==
    IF r.ok /\ SkipWs(cs, r.next) = Len(cs) + 1
    THEN [threw |-> FALSE, val |-> r.val]
    ELSE [threw |-> TRUE, val |-> Undefined]

\* JSON.parse(text): [threw, val]; it throws a SyntaxError on malformed text
JSONParse(cs) == WholeText(cs, ParseValue(cs, 1))

(***************************************************************************)
(* JSON.stringify, for the values above.                                   *)
(***************************************************************************)
RECURSIVE NatToChars(_)
\* the decimal digits of a natural number
NatToChars(n) ==
    IF n < 10 THEN <<Digits[n + 1]>>
    ELSE Append(NatToChars(n \div 10), Digits[(n % 10) + 1])

IntToChars(n) == IF n < 0 THEN <<"-">> \o NatToChars(0 - n) ELSE NatToChars(n)

RECURSIVE QuoteChars(_, _)
\* the characters of cs from position i on, with quote and backslash escaped
QuoteChars(cs, i) ==
    IF i > Len(cs) THEN <<>>
    ELSE (IF cs[i] = "\"" \/ cs[i] = "\\" THEN <<"\\", cs[i]>> ELSE <<cs[i]>>)
         \o QuoteChars(cs, i + 1)

QuoteString(cs) == <<"\"">> \o QuoteChars(cs, 1) \o <<"\"">>

RECURSIVE JSONStringify(_)
RECURSIVE StringifyItems(_, _)
RECURSIVE StringifyMembers(_, _, _)

\* the elements from position i on, comma separated; undefined is written null
StringifyItems(items, i) ==
    IF i > Len(items) THEN <<>>
    ELSE (IF i > 1 THEN <<",">> ELSE <<>>)
         \o (IF items[i].t = "undefined" THEN <<"n", "u", "l", "l">>
             ELSE JSONStringify(items[i]))
         \o StringifyItems(items, i + 1)

\* the members from position i on; a member whose value is undefined is left out
StringifyMembers(o, i, first) ==
    IF i > Len(o.keys) THEN <<>>
    ELSE IF o.vals[i].t = "undefined" THEN StringifyMembers(o, i + 1, first)
    ELSE (IF first THEN <<>> ELSE <<",">>)
         \o QuoteString(o.keys[i]) \o <<":">> \o JSONStringify(o.vals[i])
         \o StringifyMembers(o, i + 1, FALSE)

JSONStringify(v) ==
    CASE v.t = "null" -> <<"n", "u", "l", "l">>
      [] v.t = "bool" -> IF v.b THEN <<"t", "r", "u", "e">>
                         ELSE <<"f", "a", "l", "s", "e">>
      [] v.t = "num" -> IntToChars(v.n)
      [] v.t = "str" -> QuoteString(v.s)
      [] v.t = "arr" -> <<"[">> \o StringifyItems(v.items, 1) \o <<"]">>
      [] v.t = "obj" -> <<"{">> \o StringifyMembers(v, 1, TRUE) \o <<"}">>

(***************************************************************************)
(* Buffer.from(string): the UTF-8 bytes of the string.                     *)
(***************************************************************************)
Letters == <<"a", "b", "c", "d", "e", "f", "g", "h", "i", "j", "k", "l", "m",
             "n", "o", "p", "q", "r", "s", "t", "u", "v", "w", "x", "y", "z">>

Punctuation == {<<" ", <<32>>>>, <<"\"", <<34>>>>, <<",", <<44>>>>, <<"-", <<45>>>>,
                <<":", <<58>>>>, <<"[", <<91>>>>, <<"\\", <<92>>>>, <<"]", <<93>>>>,
                <<"{", <<123>>>>, <<"}", <<125>>>>, <<"é", <<195, 169>>>>}

Utf8Char(ch) ==
    IF IsDigit(ch) THEN <<48 + DigitVal(ch)>>
    ELSE IF \E i \in 1..26 : Letters[i] = ch
         THEN <<96 + (CHOOSE i \in 1..26 : Letters[i] = ch)>>
    ELSE (CHOOSE p \in Punctuation : p[1] = ch)[2]

RECURSIVE Utf8From(_, _)
Utf8From(cs, i) == IF i > Len(cs) THEN <<>> ELSE Utf8Char(cs[i]) \o Utf8From(cs, i + 1)

BufferFrom(cs) == Buf(Utf8From(cs, 1))

BufferIsBuffer(v) == v.t = "buffer"

\* the truthiness of a value in a condition
Truthy(v) ==
    CASE v.t = "undefined" -> FALSE
      [] v.t = "null" -> FALSE
      [] v.t = "bool" -> v.b
      [] v.t = "num" -> v.n # 0
      [] v.t = "str" -> v.s # <<>>
      [] OTHER -> TRUE

(***************************************************************************)
(* normalizePayload: a Date becomes its epoch time, inside arrays and      *)
(* objects too; every other value is kept.                                 *)
(***************************************************************************)
RECURSIVE normalizePayload(_)
normalizePayload(v) ==
    CASE v.t = "date" -> Num(v.ms)
      [] v.t = "arr" -> Arr([i \in 1..Len(v.items) |-> normalizePayload(v.items[i])])
      [] v.t = "obj" -> Obj(v.keys, [i \in 1..Len(v.vals) |-> normalizePayload(v.vals[i])])
      [] OTHER -> v

(***************************************************************************)
(* parseParameters (lines 59-74).  A completion is [threw, val].           *)
(***************************************************************************)
\* pushParsed with a catch block that pushes nothing
pushParsedDropsUnparsed(parsedParams, param, r) ==
    IF ~r.threw
    THEN [threw |-> FALSE, val |-> Append(parsedParams, r.val)]
    ELSE [threw |-> FALSE, val |-> parsedParams]

\* lines 63-70: the try block pushed the parsed value, or the catch block the
\* original param
pushParsed(parsedParams, param, r) ==
    IF ~r.threw
    THEN [threw |-> FALSE, val |-> Append(parsedParams, r.val)]
    ELSE [threw |-> FALSE, val |-> Append(parsedParams, Str(param))]

\* the forEach callback (lines 62-71)
eachParam(parsedParams, param) == pushParsed(parsedParams, param, JSONParse(param))

RECURSIVE forEachParam(_, _, _)

\* after the callback's completion step: a throw ends the loop
forEachNext(params, i, step) ==
    IF step.threw THEN step ELSE forEachParam(params, i + 1, step.val)

\* params.forEach from index i on
forEachParam(params, i, parsedParams) ==
    IF i > Len(params) THEN [threw |-> FALSE, val |-> parsedParams]
    ELSE forEachNext(params, i, eachParam(parsedParams, params[i]))

parseParameters(params) == forEachParam(params, 1, <<>>)

(***************************************************************************)
(* prepareResponsePayload (lines 80-86).                                   *)
(***************************************************************************)
\* prepareResponsePayload testing for undefined where the code tests truthiness
prepareResponsePayloadUndefinedOnly(payload) ==
    IF ~BufferIsBuffer(payload)
    THEN BufferFrom(IF payload.t # "undefined" THEN JSONStringify(normalizePayload(payload))
                    ELSE <<>>)
    ELSE payload

prepareResponsePayload(payload) ==
    IF ~BufferIsBuffer(payload)
    THEN BufferFrom(IF Truthy(payload) THEN JSONStringify(normalizePayload(payload))
                    ELSE <<>>)
    ELSE payload

(***************************************************************************)
(* The state.                                                              *)
(***************************************************************************)
VARIABLES
    migrating,          \* this.migrating of the handler instance
    hasMigrationsPath,  \* the handler's class overrides the migrationsPath getter
    helperThrows,       \* the handler's class overrides getTransactionHelperFor, and it throws
    globalNames,        \* the names bound on the global object, of "setup" and "ret"
    calls,              \* per call of the hosting environment: its frame
    overlapped,         \* history: a runMigrations call began while another was in progress
    applied,            \* the method last called directly: parseParameters, prepareResponsePayload
    argIn,              \* its argument
    resOut              \* its completion

vars == <<migrating, hasMigrationsPath, helperThrows, globalNames, calls, overlapped,
          applied, argIn, resOut>>

instanceVars == <<migrating, hasMigrationsPath, helperThrows, globalNames, calls, overlapped>>

pureVars == <<applied, argIn, resOut>>

Calls == 1..NumCalls

\* this.constructor.name (lines 23-26)
HandlerName == "Handler"

(***************************************************************************)
(* Errors.  ERRORS and ChaincodeError are required from files outside      *)
(* src/: a ChaincodeError has a kind (key), the kind's message and data; a *)
(* data object is the set of its <<name, value>> entries.                  *)
(***************************************************************************)
ERRORS == [MIGRATION_PATH_NOT_DEFINED |-> "MigrationPathNotDefined",
           UNKNOWN_FUNCTION |-> "UnknownFunction",
           PARSING_PARAMETERS_ERROR |-> "ParsingParametersError",
           UNKNOWN_ERROR |-> "UnknownError"]

ChaincodeError(key, data) ==
    [cls |-> "ChaincodeError", key |-> key, message |-> key, data |-> data]

\* error.serialized: the wire form, from which kind, message and data are recovered
serialized(error) ==
    [wire |-> "ChaincodeError", key |-> error.key, message |-> error.message,
     data |-> error.data]

\* new Error(message) and the errors the runtime raises
JsError(cls, message) == [cls |-> cls, message |-> message]

\* the value undefined, thrown
ThrownUndefined == [cls |-> "undefined"]

\* err instanceof ChaincodeError
IsChaincodeError(err) == err.cls = "ChaincodeError"

(***************************************************************************)
(* The shim of the hosting environment.                                    *)
(***************************************************************************)
shimSuccess(payload) == [kind |-> "success", payload |-> payload]

shimError(message) == [kind |-> "error", message |-> message]

\* an async function's promise, settled
Resolved(v) == [st |-> "resolved", val |-> v]

Rejected(err) == [st |-> "rejected", err |-> err]

NoSettlement == [st |-> "none"]

\* what a call handed its caller: nothing yet, a shim result, or a raised error
NoResult == [kind |-> "none"]

Raised(err) == [kind |-> "raised", err |-> err]

Returned(v) == [kind |-> "returned", val |-> v]

(***************************************************************************)
(* The logger.  An event carries the handler name, the operation name and  *)
(* the transaction id the message is built from, and the rest of its text. *)
(***************************************************************************)
LogEvent(ev, fcn, tx, text) ==
    [ev |-> ev, name |-> HandlerName, fcn |-> fcn, tx |-> tx, text |-> text]

\* a message built of the operation name only, or of neither: "Unknown function
\* ${ret.fcn}." (line 110), the stack (line 145), the error's data (line 146)
LogLine(ev, fcn, text) ==
    [ev |-> ev, name |-> "", fcn |-> fcn, tx |-> 0, text |-> text]

NoText == [message |-> "", data |-> {}]

\* lines 145-146: the stack, err.message and JSON.stringify(err.data)
ErrorText(err) ==
    [message |-> err.message, data |-> IF IsChaincodeError(err) THEN err.data ELSE {}]

(***************************************************************************)
(* The inputs of the model.                                                *)
(***************************************************************************)
\* operation names an invocation may carry
OpNames == {"ping", "runMigrations", "Init", "Invoke", "userOp",
            "migrating", "migrationsPath", "doesNotExist", "unknownOp"}

\* the names that are members of the instance or of its prototype chain
MemberNames == {"ping", "runMigrations", "Init", "Invoke", "userOp",
                "migrating", "migrationsPath"}

\* the methods among them
MethodNames == {"ping", "runMigrations", "Init", "Invoke", "userOp"}

\* raw parameters of an invocation
InvokeParams == {<<>>, << <<"7">> >>}

\* what the handler class's own operation userOp does when called
UserBehaviours ==
    {[do |-> "return", val |-> Undefined],
     [do |-> "return", val |-> Num(0)],
     [do |-> "return", val |-> Str(<<"o", "k">>)],
     [do |-> "throw", err |-> JsError("Error", "boom")],
     [do |-> "throw", err |-> ChaincodeError("CustomError", {<<"id", "7">>})],
     [do |-> "throw", err |-> ThrownUndefined],
     [do |-> "reject arguments"]}

\* the error of a handler operation that rejects its arguments: its message
\* quotes them
rejectedArguments(args) == JsError("Error", "rejected " \o ToString(args))

NoBehaviour == [do |-> "none"]

Behaviours(fcn) == IF fcn = "userOp" THEN UserBehaviours ELSE {NoBehaviour}

\* how the migration executor's promise settles
ExecutorOutcomes ==
    {Resolved(Undefined), Rejected(JsError("Error", "migration failed"))}

(***************************************************************************)
(* A call's frame.                                                         *)
(***************************************************************************)
NoCall == [method |-> "none"]

IdleFrame ==
    [entry |-> "none", pc |-> "idle", fcn |-> "", params |-> <<>>,
     ran |-> <<>>, called |-> NoCall, inMigration |-> FALSE,
     executorCalled |-> FALSE, pending |-> NoSettlement, result |-> NoResult,
     log |-> <<>>]
\* entry: the method the environment called; ran: the methods of the instance
\* Invoke has called, in order; called: the handler Invoke called, with its
\* arguments; pending: how the handler's promise settled; result: what the call
\* handed the environment

(***************************************************************************)
(* The members of the handler instance.                                    *)
(***************************************************************************)
NoError == [cls |-> "none"]

\* the migrationsPath getter (lines 31-34), unless the handler's class overrides it
migrationsPath ==
    IF hasMigrationsPath
    THEN [threw |-> FALSE, err |-> NoError]
    ELSE [threw |-> TRUE, err |-> ChaincodeError(ERRORS.MIGRATION_PATH_NOT_DEFINED, {})]

\* Member resolving every name to a value that is truthy, where the code finds
\* undefined for a name that is no member
MemberOfEveryName(fcn) ==
    [threw |-> FALSE, err |-> NoError, truthy |-> TRUE, callable |-> FALSE]

\* this[fcn] (line 108): the read may throw (a getter); the value read is truthy
\* or not, callable or not
Member(fcn) ==
    CASE fcn = "migrating" ->
            [threw |-> FALSE, err |-> NoError, truthy |-> migrating, callable |-> FALSE]
      [] fcn = "migrationsPath" ->
            [threw |-> migrationsPath.threw, err |-> migrationsPath.err,
             truthy |-> TRUE, callable |-> FALSE]
      [] fcn \in MethodNames ->
            [threw |-> FALSE, err |-> NoError, truthy |-> TRUE, callable |-> TRUE]
      [] OTHER ->
            [threw |-> FALSE, err |-> NoError, truthy |-> FALSE, callable |-> FALSE]

\* getTransactionHelperFor handing out one helper, built of no call's stub, to
\* every call, where the code builds a new helper of the stub it is given
getTransactionHelperShared(stub) ==
    IF helperThrows
    THEN [threw |-> TRUE, err |-> JsError("Error", "helper failed"),
          val |-> [helper |-> "none", stub |-> 0]]
    ELSE [threw |-> FALSE, err |-> NoError,
          val |-> [helper |-> "TransactionHelper", stub |-> 0]]

\* getTransactionHelperFor (lines 40-43), or the override of the handler's class
getTransactionHelperFor(stub) ==
    IF helperThrows
    THEN [threw |-> TRUE, err |-> JsError("Error", "helper failed"),
          val |-> [helper |-> "none", stub |-> 0]]
    ELSE [threw |-> FALSE, err |-> NoError,
          val |-> [helper |-> "TransactionHelper", stub |-> stub]]

\* the object setupInvoke builds of its two completions
setupOf(parsed, helper) ==
    IF parsed.threw
    THEN [threw |-> TRUE, err |-> JsError("SyntaxError", "Unexpected token"),
          parsedParameters |-> <<>>, txHelper |-> helper.val,
          ran |-> <<"parseParameters">>]
    ELSE IF helper.threw
    THEN [threw |-> TRUE, err |-> helper.err,
          parsedParameters |-> <<>>, txHelper |-> helper.val,
          ran |-> <<"parseParameters", "getTransactionHelperFor">>]
    ELSE [threw |-> FALSE, err |-> NoError,
          parsedParameters |-> parsed.val, txHelper |-> helper.val,
          ran |-> <<"parseParameters", "getTransactionHelperFor">>]

\* setupInvoke (lines 48-53): the parsed parameters, then the helper
setupInvoke(stub, params) ==
    setupOf(parseParameters(params), getTransactionHelperFor(stub))

\* line 120: "setup = ..." names no declared variable.  A class body is strict
\* code: the assignment throws a ReferenceError after its right side has run,
\* unless the global object has a property setup.
assignSetup ==
    IF "setup" \in globalNames
    THEN [threw |-> FALSE, err |-> NoError]
    ELSE [threw |-> TRUE, err |-> JsError("ReferenceError", "setup is not defined")]

\* line 147: the catch block reads ret, which is declared inside the try block
\* and is out of scope: a ReferenceError, unless the global object has a
\* property ret, whose fcn is then logged
readRetInCatch ==
    IF "ret" \in globalNames
    THEN [threw |-> FALSE, err |-> NoError, fcn |-> "undefined"]
    ELSE [threw |-> TRUE, err |-> JsError("ReferenceError", "ret is not defined"),
          fcn |-> ""]

(***************************************************************************)
(* Invoke's catch block (lines 135-150), entered with err for transaction  *)
(* tx after the events of log: the result and the log.                     *)
(***************************************************************************)
InvokeCatch(err, tx, log) ==
    IF err.cls = "undefined"
    THEN \* line 138: err.stack of undefined
         [result |-> Raised(JsError("TypeError", "Cannot read properties of undefined")),
          log |-> log]
    ELSE LET error == IF ~IsChaincodeError(err)
                      THEN ChaincodeError(ERRORS.UNKNOWN_ERROR, {<<"message", err.message>>})
                      ELSE err
             logged == log \o <<LogLine("stack", "", ErrorText(err)),
                                LogLine("data", "", ErrorText(err))>>
             ret == readRetInCatch
         IN  IF ret.threw
             THEN [result |-> Raised(ret.err), log |-> logged]
             ELSE [result |-> shimError(serialized(error)),
                   log |-> Append(logged, LogEvent("failed", ret.fcn, tx, NoText))]

\* runMigrationsBegin leaving the flag as it is, where line 161 sets it
runMigrationsBeginFlagUnset ==
    LET path == migrationsPath
    IN  [migrating |-> migrating,
         executorCalled |-> ~path.threw,
         settled |-> IF path.threw THEN Rejected(path.err) ELSE NoSettlement]

(***************************************************************************)
(* runMigrations up to its await (lines 160-162): the flag is set, then    *)
(* the arguments of the executor call are evaluated, this.migrationsPath   *)
(* first; the executor is called only if that read returns.                *)
(***************************************************************************)
runMigrationsBegin ==
    LET path == migrationsPath
    IN  [migrating |-> TRUE,
         executorCalled |-> ~path.threw,
         settled |-> IF path.threw THEN Rejected(path.err) ELSE NoSettlement]

\* runMigrationsEnd leaving the flag as it is, where line 163 clears it
runMigrationsEndFlagKept(outcome) ==
    IF outcome.st = "resolved"
    THEN [migrating |-> migrating, settled |-> Resolved(outcome.val)]
    ELSE [migrating |-> migrating, settled |-> Rejected(outcome.err)]

\* runMigrations after its await (lines 162-165), the executor having settled
runMigrationsEnd(outcome) ==
    IF outcome.st = "resolved"
    THEN [migrating |-> FALSE, settled |-> Resolved(outcome.val)]
    ELSE [migrating |-> migrating, settled |-> Rejected(outcome.err)]

\* shim.success() as a value a handler returned: an object
ResponseValue == Obj(<< <<"s", "t", "a", "t", "u", "s">> >>, <<Num(200)>>)

(***************************************************************************)
(* method.call(this, stub, txHelper, ...parsedParameters) (line 129), up   *)
(* to the handler's first await: how the handler's promise has settled, if *)
(* it has, and what the handler did to the instance.                       *)
(*                                                                         *)
(* Invoke called as a handler reads the same stub, resolves Invoke again   *)
(* and calls itself without end; the stack overflows, the RangeError       *)
(* enters the catch block of a nested call, and from there every level     *)
(* out either raises at line 147 or returns a shim result, which the next  *)
(* level out encodes as a payload.                                         *)
(***************************************************************************)
callHandler(method, behaviour, args) ==
    LET quiet == [migrating |-> migrating, executorCalled |-> FALSE, log |-> <<>>]
    IN  CASE method = "ping" ->
                [settled |-> Resolved(Str(<<"p", "o", "n", "g">>))] @@ quiet
          [] method = "Init" ->
                [settled |-> Resolved(ResponseValue), migrating |-> migrating,
                 executorCalled |-> FALSE,
                 log |-> <<LogEvent("instantiated", "", 0, NoText)>>]
          [] method = "Invoke" ->
                [settled |-> IF readRetInCatch.threw THEN Rejected(readRetInCatch.err)
                             ELSE Resolved(ResponseValue)] @@ quiet
          [] method = "runMigrations" ->
                [settled |-> runMigrationsBegin.settled,
                 migrating |-> runMigrationsBegin.migrating,
                 executorCalled |-> runMigrationsBegin.executorCalled,
                 log |-> <<>>]
          [] method = "userOp" ->
                [settled |-> CASE behaviour.do = "return" -> Resolved(behaviour.val)
                               [] behaviour.do = "throw" -> Rejected(behaviour.err)
                               [] behaviour.do = "reject arguments" ->
                                    Rejected(rejectedArguments(args))] @@ quiet

\* unknownFunction reporting the method, undefined, where the code reports ret.fcn
unknownFunctionOfMethod(fcn) ==
    shimError(serialized(ChaincodeError(ERRORS.UNKNOWN_FUNCTION, {<<"fn", "undefined">>})))

\* lines 110-114: the result for an operation name that resolves to nothing
unknownFunction(fcn) ==
    shimError(serialized(ChaincodeError(ERRORS.UNKNOWN_FUNCTION, {<<"fn", fcn>>})))

\* lines 123-127: the error of setupInvoke or of the assignment, reclassified
parsingParametersError(err) ==
    ChaincodeError(ERRORS.PARSING_PARAMETERS_ERROR, {<<"message", err.message>>})

(***************************************************************************)
(* Invoke up to its await (lines 100-129) for call c, whose stub carries   *)
(* the operation name fcn, the raw parameters params and the transaction   *)
(* id c: the call's frame and the instance's flag afterwards.  method is   *)
(* the completion of this[fcn], setup that of setupInvoke and handler that *)
(* of method.call; each is used only if the code gets that far.            *)
(***************************************************************************)
invokeSteps(c, fcn, params, method, setup, handler) ==
    LET started == <<LogEvent("invoked", fcn, c, NoText)>>
        frame == [IdleFrame EXCEPT !.entry = "Invoke", !.fcn = fcn, !.params = params]
        caught(r, ran) ==
            [frame |-> [frame EXCEPT !.pc = "done", !.ran = ran, !.result = r.result,
                                     !.log = r.log],
             migrating |-> migrating]
    IN  IF method.threw THEN caught(InvokeCatch(method.err, c, started), <<>>)
        ELSE IF ~method.truthy
        THEN [frame |-> [frame EXCEPT
                            !.pc = "done",
                            !.result = unknownFunction(fcn),
                            !.log = Append(started, LogLine("unknown", fcn, NoText))],
              migrating |-> migrating]
        ELSE IF setup.threw
        THEN caught(InvokeCatch(parsingParametersError(setup.err), c, started),
                    setup.ran)
        ELSE IF assignSetup.threw
        THEN caught(InvokeCatch(parsingParametersError(assignSetup.err), c, started),
                    setup.ran)
        ELSE IF ~method.callable
        THEN caught(InvokeCatch(JsError("TypeError", "method.call is not a function"),
                                c, started),
                    setup.ran)
        ELSE [frame |-> [frame EXCEPT
                            !.pc = IF handler.settled.st = "none" THEN "inExecutor"
                                   ELSE "awaitHandler",
                            !.ran = Append(setup.ran, fcn),
                            !.called = [method |-> fcn, stub |-> c,
                                        txHelper |-> setup.txHelper,
                                        args |-> setup.parsedParameters],
                            !.inMigration = handler.settled.st = "none",
                            !.executorCalled = handler.executorCalled,
                            !.pending = handler.settled,
                            !.log = started \o handler.log],
              migrating |-> handler.migrating]

\* the handler is called with the parsed parameters of setup (line 129)
invokeWith(c, fcn, params, behaviour, setup) ==
    invokeSteps(c, fcn, params, Member(fcn), setup,
                callHandler(fcn, behaviour, setup.parsedParameters))

invokeBegin(c, fcn, params, behaviour) ==
    invokeWith(c, fcn, params, behaviour, setupInvoke(c, params))

\* the frame of a call that Invoke's catch block ended with completion r
endCaught(frame, r) ==
    [frame EXCEPT !.pc = "done", !.result = r.result, !.log = r.log]

\* Invoke after its await (lines 129-134, or the catch block): the frame at the end
invokeEnd(c, frame) ==
    IF frame.pending.st = "resolved"
    THEN [frame EXCEPT
            !.pc = "done",
            !.result = shimSuccess(prepareResponsePayload(frame.pending.val)),
            !.log = Append(frame.log, LogEvent("complete", frame.fcn, c, NoText))]
    ELSE endCaught(frame, InvokeCatch(frame.pending.err, c, frame.log))

\* a runMigrations call is in progress in a call other than c
OtherInMigration(c) == \E d \in Calls \ {c} : calls[d].inMigration

(***************************************************************************)
(* The actions: one per synchronous segment.                               *)
(***************************************************************************)
\* the hosting environment calls Invoke(stub): lines 100-129
Invoke(c) ==
    /\ calls[c].pc = "idle"
    /\ \E fcn \in OpNames, params \in InvokeParams :
         \E behaviour \in Behaviours(fcn) :
            \E begun \in {invokeBegin(c, fcn, params, behaviour)} :
                /\ calls' = [calls EXCEPT ![c] = begun.frame]
                /\ migrating' = begun.migrating
                /\ overlapped' = (overlapped \/ (begun.frame.inMigration /\ OtherInMigration(c)))
    /\ UNCHANGED <<hasMigrationsPath, helperThrows, globalNames, pureVars>>

\* the handler's promise has settled and Invoke goes on: lines 129-150
InvokeResume(c) ==
    /\ calls[c].entry = "Invoke"
    /\ calls[c].pc = "awaitHandler"
    /\ calls' = [calls EXCEPT ![c] = invokeEnd(c, calls[c])]
    /\ UNCHANGED <<migrating, overlapped, hasMigrationsPath, helperThrows, globalNames,
                   pureVars>>

\* runMigrations is called on the instance directly: lines 160-162
RunMigrations(c) ==
    /\ calls[c].pc = "idle"
    /\ \E begun \in {runMigrationsBegin}, running \in {hasMigrationsPath} :
           /\ calls' = [calls EXCEPT ![c] =
                  [IdleFrame EXCEPT
                     !.entry = "runMigrations",
                     !.fcn = "runMigrations",
                     !.pc = IF running THEN "inExecutor" ELSE "done",
                     !.inMigration = running,
                     !.executorCalled = begun.executorCalled,
                     !.result = IF running THEN NoResult ELSE Raised(begun.settled.err)]]
           /\ migrating' = begun.migrating
           /\ overlapped' = (overlapped \/ (running /\ OtherInMigration(c)))
    /\ UNCHANGED <<hasMigrationsPath, helperThrows, globalNames, pureVars>>

\* the migration executor's promise has settled and runMigrations goes on:
\* lines 162-165
RunMigrationsResume(c) ==
    /\ calls[c].pc = "inExecutor"
    /\ \E outcome \in ExecutorOutcomes :
         \E ended \in {runMigrationsEnd(outcome)} :
             /\ migrating' = ended.migrating
             /\ calls' = [calls EXCEPT ![c] =
                    IF calls[c].entry = "Invoke"
                    THEN [@ EXCEPT !.pc = "awaitHandler", !.inMigration = FALSE,
                                   !.pending = ended.settled]
                    ELSE [@ EXCEPT !.pc = "done", !.inMigration = FALSE,
                                   !.result = IF ended.settled.st = "resolved"
                                              THEN Returned(ended.settled.val)
                                              ELSE Raised(ended.settled.err)]]
    /\ UNCHANGED <<overlapped, hasMigrationsPath, helperThrows, globalNames, pureVars>>

Init ==
    /\ migrating = FALSE
    /\ hasMigrationsPath \in BOOLEAN
    /\ helperThrows \in BOOLEAN
    /\ globalNames \in SUBSET {"setup", "ret"}
    /\ calls = [c \in Calls |-> IdleFrame]
    /\ overlapped = FALSE
    /\ applied = "none"
    /\ argIn = <<>>
    /\ resOut = <<>>

Next ==
    \E c \in Calls :
        \/ Invoke(c)
        \/ InvokeResume(c)
        \/ RunMigrations(c)
        \/ RunMigrationsResume(c)

Spec == Init /\ [][Next]_vars

(***************************************************************************)
(* parseParameters and prepareResponsePayload called directly on the       *)
(* instance, on inputs drawn from the sets below.                          *)
(***************************************************************************)
\* raw arguments: well-formed JSON literals and strings that are not
RawStrings ==
    {<<"1", "2", "3">>,
     <<"\"", "a", "b", "c", "\"">>,
     <<"n", "o", "t", "-", "j", "s", "o", "n">>,
     <<"t", "r", "u", "e">>,
     <<"n", "u", "l", "l">>,
     <<>>,
     <<"[", "1", ",", "2", "]">>,
     <<"{", "\"", "a", "\"", ":", "1", "}">>,
     <<"[", "1", ",">>,
     <<"-", "5">>,
     <<"0", "1">>,
     <<" ", "7", " ">>,
     <<"\"", "a", "b", "c">>,
     <<"{", "}">>}

ArgSeqs == UNION {[1..k -> RawStrings] : k \in 0..MaxArgs}

\* values a handler may return
Payloads ==
    {Undefined, Null,
     Buf(<<>>), Buf(<<1, 2>>), Buf(<<112, 111, 110, 103>>),
     Num(0), Num(7), Num(0 - 3),
     Str(<<>>), Str(<<"p", "o", "n", "g">>), Str(<<"a", "\"", "é">>),
     Bool(TRUE), Bool(FALSE),
     Arr(<<>>), Arr(<<Num(1), Str(<<"a">>), Null, Undefined>>),
     Obj(<<>>, <<>>), Obj(<< <<"k">>, <<"u">> >>, <<Arr(<<Bool(FALSE)>>), Undefined>>),
     DateVal(5), Arr(<<DateVal(12)>>)}

ParseParametersCall ==
    /\ applied = "none"
    /\ \E params \in ArgSeqs :
         /\ applied' = "parseParameters"
         /\ argIn' = params
         /\ resOut' = parseParameters(params)
    /\ UNCHANGED instanceVars

PrepareResponsePayloadCall ==
    /\ applied = "none"
    /\ \E payload \in Payloads :
         /\ applied' = "prepareResponsePayload"
         /\ argIn' = payload
         /\ resOut' = prepareResponsePayload(payload)
    /\ UNCHANGED instanceVars

InitPure ==
    /\ migrating = FALSE
    /\ hasMigrationsPath = FALSE
    /\ helperThrows = FALSE
    /\ globalNames = {}
    /\ calls = [c \in Calls |-> IdleFrame]
    /\ overlapped = FALSE
    /\ applied = "none"
    /\ argIn = <<>>
    /\ resOut = <<>>

NextPure == ParseParametersCall \/ PrepareResponsePayloadCall

SpecPure == InitPure /\ [][NextPure]_vars

(***************************************************************************)
(* The claims.                                                             *)
(***************************************************************************)
InvokeCalls == {c \in Calls : calls[c].entry = "Invoke"}

\* the Invoke calls that have handed their result to the environment
InvokeDone == {c \in InvokeCalls : calls[c].pc = "done"}

\* a failure result carrying a serialized ChaincodeError of this kind and data
IsFailure(result, kind, data) ==
    /\ result.kind = "error"
    /\ result.message.wire = "ChaincodeError"
    /\ result.message.key = kind
    /\ result.message.data = data

\* C1: for every operation name that is no member of the handler, Invoke
\* returns a failure result of kind UnknownFunction whose data.fn is the
\* requested name.
C1_UnknownFunction ==
    \A c \in InvokeCalls :
        calls[c].fcn \notin MemberNames =>
            /\ calls[c].pc = "done"
            /\ IsFailure(calls[c].result, "UnknownFunction", {<<"fn", calls[c].fcn>>})

C1_Witness ==
    \E c \in InvokeDone :
        /\ calls[c].fcn = "doesNotExist"
        /\ calls[c].result.kind = "error"

\* the UTF-8 bytes of the JSON text "pong", quotes included
PongPayload == Buf(<<34, 112, 111, 110, 103, 34>>)

\* C2: ping with no arguments, routed through Invoke, ends with a success
\* result whose payload decodes to "pong", never with a failure result or a
\* raised error (the handler's class not making the helper's construction fail).
C2_PingPong ==
    \A c \in InvokeDone :
        (calls[c].fcn = "ping" /\ calls[c].params = <<>> /\ ~helperThrows) =>
            /\ calls[c].result.kind = "success"
            /\ calls[c].result.payload = PongPayload

\* the handler of call c raised a plain Error, which has a message
HandlerRaisedPlain(c) ==
    /\ calls[c].called # NoCall
    /\ calls[c].pending.st = "rejected"
    /\ calls[c].pending.err.cls = "Error"

\* C3: when the resolved handler raises an error that is no ChaincodeError,
\* with message m, Invoke returns a failure result of kind UnknownError whose
\* data.message is m.
C3_UnknownError ==
    \A c \in InvokeDone :
        HandlerRaisedPlain(c) =>
            IsFailure(calls[c].result, "UnknownError",
                      {<<"message", calls[c].pending.err.message>>})

\* C4: every Invoke call completes by returning a result of shim.success or
\* shim.error; no error propagates out of Invoke as a raised error.
C4_NeverRaises ==
    \A c \in InvokeDone : calls[c].result.kind \in {"success", "error"}

\* C5: over non-overlapping runMigrations calls, the migrating flag is false
\* whenever no runMigrations call is in progress, whether the calls returned
\* or raised.
C5_FlagFalseOutsideCalls ==
    (~overlapped /\ \A c \in Calls : ~calls[c].inMigration) => migrating = FALSE

\* C6: on a handler without a migrations path, runMigrations fails with
\* MigrationPathNotDefined, never calls the migration executor and never sets
\* the migrating flag.
C6_NoPathNoFlag ==
    ~hasMigrationsPath =>
        /\ migrating = FALSE
        /\ \A c \in Calls :
              /\ ~calls[c].executorCalled
              /\ (calls[c].entry = "runMigrations" /\ calls[c].pc = "done") =>
                    /\ calls[c].result.kind = "raised"
                    /\ calls[c].result.err.cls = "ChaincodeError"
                    /\ calls[c].result.err.key = "MigrationPathNotDefined"

\* raw strings with the value each decodes to, and raw strings that are
\* malformed, by the JSON grammar
KnownDecodings ==
    {<< <<"1", "2", "3">>, Num(123) >>,
     << <<"\"", "a", "b", "c", "\"">>, Str(<<"a", "b", "c">>) >>,
     << <<"t", "r", "u", "e">>, Bool(TRUE) >>,
     << <<"n", "u", "l", "l">>, Null >>,
     << <<"[", "1", ",", "2", "]">>, Arr(<<Num(1), Num(2)>>) >>,
     << <<"{", "\"", "a", "\"", ":", "1", "}">>, Obj(<< <<"a">> >>, <<Num(1)>>) >>,
     << <<"-", "5">>, Num(0 - 5) >>,
     << <<" ", "7", " ">>, Num(7) >>,
     << <<"{", "}">>, Obj(<<>>, <<>>) >>}

KnownMalformed ==
    {<<"n", "o", "t", "-", "j", "s", "o", "n">>, <<>>, <<"[", "1", ",">>,
     <<"0", "1">>, <<"\"", "a", "b", "c">>}

\* what the claim says element i is: the decoded value of a well-formed
\* literal, the raw string itself otherwise
Coerced(raw) ==
    IF raw \in KnownMalformed THEN Str(raw)
    ELSE (CHOOSE d \in KnownDecodings : d[1] = raw)[2]

\* C7: parseParameters never raises and returns a sequence of the same
\* length in the same order, element i being the decoded value of argument i
\* when that is a well-formed JSON literal and the raw string otherwise.
C7_ParseParameters ==
    applied = "parseParameters" =>
        /\ ~resOut.threw
        /\ Len(resOut.val) = Len(argIn)
        /\ \A i \in 1..Len(argIn) : resOut.val[i] = Coerced(argIn[i])

C7_Witness ==
    /\ applied = "parseParameters"
    /\ argIn = << <<"1", "2", "3">>, <<"\"", "a", "b", "c", "\"">>,
                  <<"n", "o", "t", "-", "j", "s", "o", "n">> >>
    /\ resOut.val = <<Num(123), Str(<<"a", "b", "c">>),
                      Str(<<"n", "o", "t", "-", "j", "s", "o", "n">>)>>

\* C8: prepareResponsePayload returns a value that is a byte sequence
\* unchanged, and an empty byte sequence for an absent or null value.
C8_BufferOrEmpty ==
    applied = "prepareResponsePayload" =>
        /\ BufferIsBuffer(argIn) => resOut = argIn
        /\ argIn \in {Null, Undefined} => resOut = Buf(<<>>)

C8_WitnessBuffer ==
    /\ applied = "prepareResponsePayload"
    /\ argIn = Buf(<<112, 111, 110, 103>>)
    /\ resOut = argIn

\* C9: for every present value that is no byte sequence, empty strings, zero
\* and false included, prepareResponsePayload returns the UTF-8 bytes of the
\* JSON text of the normalized value; only null and absent values give the
\* empty byte sequence.
C9_PresentIsSerialized ==
    (applied = "prepareResponsePayload" /\ ~BufferIsBuffer(argIn)
        /\ argIn \notin {Null, Undefined}) =>
        /\ resOut = BufferFrom(JSONStringify(normalizePayload(argIn)))
        /\ resOut # Buf(<<>>)

\* the global object binds both setup and ret, and the helper's construction
\* does not fail: lines 120 and 147 do not raise
ScopesResolve == {"setup", "ret"} \subseteq globalNames /\ ~helperThrows

\* C10: an invocation whose operation name is Init or Invoke is treated as
\* an unknown operation (a failure of kind UnknownFunction) and never runs
\* Init or Invoke as a handler; stated where lines 120 and 147 do not raise.
C10_ReservedNames ==
    ScopesResolve =>
        \A c \in InvokeCalls :
            calls[c].fcn \in {"Init", "Invoke"} =>
                /\ calls[c].called = NoCall
                /\ calls[c].pc = "done"
                /\ IsFailure(calls[c].result, "UnknownFunction", {<<"fn", calls[c].fcn>>})

\* call c has run setupInvoke, which has called parseParameters
SetupRan(c) == calls[c].ran # <<>>

\* the result is a failure result of the kind ParsingParametersError
IsParsingFailure(result) ==
    /\ result.kind = "error"
    /\ result.message.key = ERRORS.PARSING_PARAMETERS_ERROR

\* C11: when setupInvoke raises with message m (parameter coercion, or the
\* construction of the transaction helper), Invoke returns a failure result
\* of kind ParsingParametersError whose data.message is m, and the resolved
\* handler is never called; when neither raises, the invocation never fails
\* with kind ParsingParametersError.
C11_ParsingParametersError ==
    \A c \in InvokeDone :
        /\ (SetupRan(c) /\ setupInvoke(c, calls[c].params).threw) =>
              /\ IsFailure(calls[c].result, "ParsingParametersError",
                           {<<"message", setupInvoke(c, calls[c].params).err.message>>})
              /\ calls[c].called = NoCall
        /\ (SetupRan(c) /\ ~setupInvoke(c, calls[c].params).threw) =>
              ~IsParsingFailure(calls[c].result)

\* the handler of call c raised an error that already is a ChaincodeError
HandlerRaisedChaincodeError(c) ==
    /\ calls[c].called # NoCall
    /\ calls[c].pending.st = "rejected"
    /\ IsChaincodeError(calls[c].pending.err)

\* C12: when the resolved handler raises an error that already is a
\* ChaincodeError of kind k with data d (runMigrations called through Invoke
\* without a migrations path: MigrationPathNotDefined), Invoke returns a
\* failure result carrying the serialization of that same error, k and d
\* preserved, and never rewraps it as UnknownError.
C12_ChaincodeErrorPreserved ==
    \A c \in InvokeDone :
        HandlerRaisedChaincodeError(c) =>
            /\ calls[c].result = shimError(serialized(calls[c].pending.err))
            /\ IsFailure(calls[c].result, calls[c].pending.err.key,
                         calls[c].pending.err.data)

\* the log of call c without the transaction ids, which no two calls share
LogOutput(c) == [i \in DOMAIN calls[c].log |-> [calls[c].log[i] EXCEPT !.tx = 0]]

\* calls c and d took the same course: the same operation, the same methods
\* run, and handlers that settled alike, raising errors of the same class
\* and kind if they raised; they differ at most in the argument values, in the
\* payload returned and in the message and data of the error raised
DifferInValuesOnly(c, d) ==
    /\ calls[c].fcn = calls[d].fcn
    /\ calls[c].ran = calls[d].ran
    /\ calls[c].pending.st = calls[d].pending.st
    /\ calls[c].pending.st = "rejected" =>
          /\ calls[c].pending.err.cls = calls[d].pending.err.cls
          /\ IsChaincodeError(calls[c].pending.err) =>
                calls[c].pending.err.key = calls[d].pending.err.key

\* C13: no log event of an Invoke call (start, completion, unknown operation,
\* failure path) contains data derived from the argument values or from the
\* handler's returned payload: two invocations that differ only in those, the
\* message and data of an error the handler raises from them included,
\* produce identical log output.
C13_LogsIndependentOfValues ==
    \A c \in InvokeDone, d \in InvokeDone :
        DifferInValuesOnly(c, d) => LogOutput(c) = LogOutput(d)

\* the operation name resolves to nothing on the instance as it is: it names
\* no member, or it names the flag, which is false
Unrecognized(fcn) == fcn \notin MemberNames \/ (fcn = "migrating" /\ ~migrating)

\* C14: an unrecognized operation name never partially executes.  Resolution
\* comes before parameter coercion, helper construction and any handler code:
\* the Invoke call of a name that does not resolve ends at once with the
\* UnknownFunction result, having run none of parseParameters,
\* getTransactionHelperFor, a handler method or the migration executor, and
\* leaves the migrating flag as it was.
C14_UnknownRunsNothing ==
    [][\A c \in Calls :
          (calls[c].pc = "idle" /\ calls'[c].entry = "Invoke"
              /\ Unrecognized(calls'[c].fcn)) =>
             /\ calls'[c].pc = "done"
             /\ calls'[c].result = unknownFunction(calls'[c].fcn)
             /\ calls'[c].ran = <<>>
             /\ calls'[c].called = NoCall
             /\ ~calls'[c].executorCalled
             /\ ~calls'[c].inMigration
             /\ migrating' = migrating]_vars

\* an unrecognized name has been invoked during a migration of another call
C14_Witness ==
    \E c \in InvokeDone, d \in Calls :
        /\ calls[c].fcn = "unknownOp"
        /\ calls[c].params # <<>>
        /\ calls[c].ran = <<>>
        /\ calls[d].pc = "inExecutor"
        /\ migrating

\* the positions of the terminal events of a log: completion and failure
TerminalEvents(log) == {i \in DOMAIN log : log[i].ev \in {"complete", "failed"}}

\* C15: every Invoke call emits a start event first and, before it ends,
\* exactly one terminal event: the completion event if and only if it ends
\* with a success result, the failure event if and only if it fails (the
\* failure of an unknown operation included); each of these events is tagged
\* with the handler name, the call's operation name and its transaction id.
C15_StartAndOneTerminalEvent ==
    \A c \in InvokeDone :
        /\ calls[c].log # <<>>
        /\ Head(calls[c].log) = LogEvent("invoked", calls[c].fcn, c, NoText)
        /\ Cardinality(TerminalEvents(calls[c].log)) = 1
        /\ \A i \in TerminalEvents(calls[c].log) :
              calls[c].log[i] =
                  LogEvent(IF calls[c].result.kind = "success" THEN "complete"
                           ELSE "failed",
                           calls[c].fcn, c, NoText)

\* the migration executor of call c is still running
ExecutorRunning(c) == calls[c].pc = "inExecutor"

\* call c was a runMigrations call whose executor returned normally, so that
\* the call went on to line 163 and cleared the flag
ClearedFlag(c) ==
    /\ calls[c].executorCalled
    /\ \/ calls[c].entry = "runMigrations" /\ calls[c].result.kind = "returned"
       \/ calls[c].entry = "Invoke" /\ calls[c].pc \in {"awaitHandler", "done"}
             /\ calls[c].pending.st = "resolved"

\* C16: the flag writes of overlapping runMigrations calls race.  The flag is
\* false under a running migration executor only on an instance with a
\* migrations path on which runMigrations calls have overlapped and another
\* call has completed and cleared the flag; and that state is reachable (the
\* witness).
C16_FlagWritesRace ==
    \A d \in Calls :
        (ExecutorRunning(d) /\ ~migrating) =>
            /\ hasMigrationsPath
            /\ overlapped
            /\ \E c \in Calls \ {d} : ClearedFlag(c)

\* one runMigrations call is in its executor with the flag false, the other
\* having returned
C16_Witness ==
    \E c \in Calls, d \in Calls :
        /\ c # d
        /\ calls[c].entry = "runMigrations" /\ calls[d].entry = "runMigrations"
        /\ ExecutorRunning(d)
        /\ calls[c].result.kind = "returned"
        /\ hasMigrationsPath
        /\ overlapped
        /\ ~migrating

\* how many times call c has run the method named
TimesRan(c, name) == Cardinality({i \in DOMAIN calls[c].ran : calls[c].ran[i] = name})

\* the handler call of invocation c carries c's own stub, a helper built of
\* that stub and the parameters parsed from c's own raw parameters
OwnHandlerCall(c) ==
    /\ calls[c].called.method = calls[c].fcn
    /\ calls[c].called.stub = c
    /\ calls[c].called.txHelper = [helper |-> "TransactionHelper", stub |-> c]
    /\ calls[c].called.args = parseParameters(calls[c].params).val

MigrationCalls == {c \in Calls : calls[c].executorCalled}

\* C18: on an instance with a migrations path, once every runMigrations call
\* made so far has returned, the executor of each having returned normally,
\* the migrating flag is false, however the calls overlapped.
C18_FlagFalseAfterLastReturn ==
    (hasMigrationsPath /\ MigrationCalls # {}
        /\ \A c \in MigrationCalls : ClearedFlag(c)) =>
        ~migrating

\* every call was a runMigrations call, the calls overlapped, and all have
\* returned normally
C18_Witness ==
    /\ overlapped
    /\ MigrationCalls = Calls
    /\ \A c \in Calls : ClearedFlag(c)
    /\ \E c \in Calls : calls[c].entry = "runMigrations"
    /\ ~migrating

====
